---- MODULE Spec2Model ----
(***************************************************************************)
(* The image-generation pipeline of api/controllers/sessions.ts:           *)
(* generateImage (the retry orchestrator) and postToStableDiffusion (the   *)
(* generation client), with the blob store, the image table and the        *)
(* websocket channel they write to.  One invocation of generateImage is a  *)
(* process; it advances from one suspension point (await) to the next.     *)
(***************************************************************************)
EXTENDS Integers, Sequences, FiniteSets, TLC

\* ------------------------------------------------------------------ bounds
MaxCount == 4        \* request.count ranges over 0..MaxCount ...
MaxScripted == 7     \* ... and over 0..MaxScripted when the service is scripted
MaxBatch == 2        \* the service returns at most MaxBatch artifacts per call
                     \* (a client that honours `samples` returns that many)
MaxRequests == 3     \* session requests in flight: 1..MaxRequests
MaxConcurrent == 2   \* request.count ranges over 0..MaxConcurrent when
                     \* invocations run side by side

\* ------------------------------------------------------ program constants
maxImageTries == 30  \* const maxImageTries = 30
Depth == 0           \* postToStableDiffusion(..., depth = 0)
MaxDepth == 5        \* if (depth > 5) return undefined

Invocations == {1, 2}

FinishReasons == {"SUCCESS", "CONTENT_FILTERED", "ERROR"}

\* How the external generation service behaves towards one request.
\*   any      : it may fail, or return any artifacts
\* and the scripted services, which never fail:
\*   success  : it returns one artifact or more, every one SUCCESS
\*   full     : as success, and it returns at least the `samples` asked for
\*   filtered : every artifact it returns is CONTENT_FILTERED
\* and the service that is down:
\*   failing  : every call fails
ClientKinds == {"any", "success", "full", "filtered", "failing"}

\* the unconstrained service is explored for the smaller counts only
Counts(kind) == IF kind = "any" THEN 0..MaxCount ELSE 0..MaxScripted

VARIABLES
    apiKey,             \* process.env.STABILITY_API_KEY is set
    isLocalDevelopment, \* deployment-mode flag of the blob store
    request,            \* request[p]: the ImageRequest of invocation p
    client,             \* client[p]: behaviour of the service towards p
    pc,                 \* pc[p]: where invocation p is suspended
    urls,               \* locals of generateImage
    validImageCount,
    tries,
    imageResponse,
    artifacts,
    idx,                \* position of the for..of iterator in artifacts
    url,
    createdImage,
    result,             \* what the invocation returned / raised
    posted,             \* posted[p]: `samples` of every axios.post of p
    answered,           \* answered[p]: axios.post calls of p that have settled
    nextUuid,           \* uuidv4(): number of identifiers handed out
    blobs,              \* objects written by saveImageLocally / uploadImage
    images,             \* rows of prisma.image
    sink,               \* sink[u]: websocket messages sent to user u
    sessions,           \* rows of prisma.session
    call,               \* call[r]: the deleteSession / patchSession request r
    cpc,                \* cpc[r]: where the handler of request r is suspended
    session,            \* session[r]: the row getSession returned to r
    answer,             \* answer[r]: what the handler returned / raised
    removedBy,          \* removedBy[id]: the request that deleted row id, or 0
    found               \* found[id]: row id before any request ran

vars == <<apiKey, isLocalDevelopment, request, client, pc, urls,
          validImageCount, tries, imageResponse, artifacts, idx, url,
          createdImage, result, posted, answered, nextUuid, blobs, images,
          sink, sessions, call, cpc, session, answer, removedBy, found>>

imageVars == <<apiKey, isLocalDevelopment, request, client, pc, urls,
               validImageCount, tries, imageResponse, artifacts, idx, url,
               createdImage, result, posted, answered, nextUuid, blobs,
               images, sink>>
sessionVars == <<sessions, call, cpc, session, answer, removedBy, found>>

locals == <<urls, validImageCount, tries, imageResponse, artifacts, idx,
            url, createdImage>>
stores == <<nextUuid, blobs, images>>
config == <<apiKey, isLocalDevelopment, request, client>>

\* ------------------------------------------------------------------ values
NoPrompt == ""                       \* undefined updatedPrompt (falsy)
Prompt == "a dragon"
NoUrl == [host |-> "", key |-> 0]    \* let url = ''
NoImage == [id |-> 0, userId |-> 0, uri |-> NoUrl]
NoResponse == [defined |-> FALSE, artifacts |-> <<>>, updatedPrompt |-> NoPrompt]

Pending == [kind |-> "pending", urls |-> <<>>]
Undefined == [kind |-> "undefined", urls |-> <<>>]
Thrown == [kind |-> "Error", urls |-> <<>>]
Rejected == [kind |-> "rejected", urls |-> <<>>]  \* an error of the blob store
\* a list built with unshift: newest first
RECURSIVE Reverse(_)
Reverse(us) == IF us = <<>> THEN <<>> ELSE Append(Reverse(Tail(us)), Head(us))
ReturnedReversed(us) == [kind |-> "list", urls |-> Reverse(us)]

Returned(us) == [kind |-> "list", urls |-> us]

ImageErrorMessage == "There was an error generating your image."
ImageFilteredMessage == "The image generation service was unable to generate an image that met the criteria."

Message(event, payload) == [event |-> event, payload |-> payload]

\* sendWebsocketMessage(userId, event, payload)
sendWebsocketMessage(s, userId, event, payload) ==
    [s EXCEPT ![userId] = Append(@, Message(event, payload))]

\* ------------------------------------------------------------ pure helpers
\* a filter that only drops the artifacts the service erred on
IsNotError(a) == a.finishReason # "ERROR"

\* a filter that keeps the rejected artifacts instead
IsFiltered(a) == a.finishReason = "CONTENT_FILTERED"

\* (a) => a.finishReason === 'SUCCESS'
IsSuccess(a) == a.finishReason = "SUCCESS"

RECURSIVE Filter(_)
\* Array.prototype.filter with (a) => a.finishReason === 'SUCCESS': the
\* elements that pass, in their order
Filter(seq) ==
    IF seq = <<>> THEN <<>>
    ELSE IF IsSuccess(Head(seq)) THEN <<Head(seq)>> \o Filter(Tail(seq))
         ELSE Filter(Tail(seq))

\* const artifacts = imageResponse.artifacts.filter(...)
SuccessArtifacts(resp) == Filter(resp.artifacts)

\* a try counter that grows by what is still missing
NextTriesRemaining(t, count, valid) == t + (count - valid)

\* tries += request.count
NextTries(t, count, valid) == t + count

\* a call that always asks for the full count
SamplesCount(count, valid) == count

\* count: request.count - validImageCount
Samples(count, valid) == count - valid

\* a for loop without its break
BatchDoneNever(valid, count) == FALSE

\* if (validImageCount === request.count) break
BatchDone(valid, count) == valid = count

\* while (validImageCount < request.count && tries < maxImageTries)
LoopAgain(valid, count, t) == valid < count /\ t < maxImageTries

\* a post-loop branch that always reports success
FinalEventDone(valid, count) == "ImageGenerationDone"

\* if (validImageCount < request.count) ImageFiltered else ImageGenerationDone
FinalEvent(valid, count) ==
    IF valid < count THEN "ImageFiltered" ELSE "ImageGenerationDone"

\* updatedPrompt: depth === 0 ? undefined : request.prompt
UpdatedPrompt(depth, prompt) == IF depth = 0 THEN NoPrompt ELSE prompt

\* saveImageLocally / uploadImage: the object written and the URI returned
StoreName == IF isLocalDevelopment THEN "DATA_DIR" ELSE "mythweaver-assets"
UrlHost == IF isLocalDevelopment THEN "API_URL/images" ELSE "assets.mythweaver.co"
BlobOf(imageId, base64) == [store |-> StoreName, key |-> imageId, body |-> base64]
UrlOf(imageId) == [host |-> UrlHost, key |-> imageId]

\* ------------------------------------------------- the generation service
Artifact(reason, i) == [finishReason |-> reason, base64 |-> i]

\* response.data.artifacts: what the service may answer to a call for
\* `samples` images
BatchSizes(kind, samples) ==
    CASE kind = "full" -> samples..(samples + 1)
      [] kind = "success" -> 1..MaxBatch
      [] kind = "failing" -> {}
      [] OTHER -> 0..MaxBatch

ReasonsOf(kind) ==
    CASE kind = "any" -> FinishReasons
      [] kind = "filtered" -> {"CONTENT_FILTERED"}
      [] OTHER -> {"SUCCESS"}

Batches(kind, samples) ==
    UNION {{[i \in 1..n |-> Artifact(f[i], i)] : f \in [1..n -> ReasonsOf(kind)]}
           : n \in BatchSizes(kind, samples)}

MayFail(kind) == kind \in {"any", "failing"}

\* --------------------------------------------------------------- initially
InitWith(called) ==
    /\ apiKey \in BOOLEAN
    /\ isLocalDevelopment \in BOOLEAN
    /\ client \in [Invocations -> ClientKinds]
    /\ \A p \in Invocations \ called : client[p] = "any"
    /\ request \in [Invocations -> [userId : Invocations, count : 0..MaxScripted]]
    /\ \A p \in Invocations : request[p].userId = p
    /\ \A p \in called : request[p].count \in Counts(client[p])
    /\ \A p \in Invocations \ called : request[p].count = 0
    /\ pc = [p \in Invocations |-> IF p \in called THEN "start" ELSE "idle"]
    /\ urls = [p \in Invocations |-> <<>>]
    /\ validImageCount = [p \in Invocations |-> 0]
    /\ tries = [p \in Invocations |-> 0]
    /\ imageResponse = [p \in Invocations |-> NoResponse]
    /\ artifacts = [p \in Invocations |-> <<>>]
    /\ idx = [p \in Invocations |-> 0]
    /\ url = [p \in Invocations |-> NoUrl]
    /\ createdImage = [p \in Invocations |-> NoImage]
    /\ result = [p \in Invocations |-> Pending]
    /\ posted = [p \in Invocations |-> <<>>]
    /\ answered = [p \in Invocations |-> 0]
    /\ nextUuid = 0
    /\ blobs = {}
    /\ images = <<>>
    /\ sink = [u \in Invocations |-> <<>>]

\* ------------------------------------------------------ the session table
SessionIds == {1}
Users == {1, 2}
Requests == 1..MaxRequests
NoUser == 0                          \* session.userId === null

NoSession == [exists |-> FALSE, userId |-> NoUser, archived |-> FALSE]
SessionRows ==
    {NoSession} \cup [exists : {TRUE}, userId : Users \cup {NoUser}, archived : BOOLEAN]

\* DELETE /sessions/:sessionId, and PATCH /sessions/:sessionId with a body
\* that leaves archived out or sets it (patchSessionsSchema.archived)
SessionCalls ==
    [op : {"deleteSession"}, userId : Users, sessionId : SessionIds,
     sets : {FALSE}, archived : {FALSE}]
    \cup [op : {"patchSession"}, userId : Users, sessionId : SessionIds,
          sets : {FALSE}, archived : {FALSE}]
    \cup [op : {"patchSession"}, userId : Users, sessionId : SessionIds,
          sets : {TRUE}, archived : BOOLEAN]
NoCall ==
    [op |-> "none", userId |-> NoUser, sessionId |-> 1, sets |-> FALSE,
     archived |-> FALSE]

\* no session request is ever made
SessionsIdle ==
    /\ sessions = [id \in SessionIds |-> NoSession]
    /\ call = [r \in Requests |-> NoCall]
    /\ cpc = [r \in Requests |-> "idle"]
    /\ session = [r \in Requests |-> NoSession]
    /\ answer = [r \in Requests |-> "pending"]
    /\ removedBy = [id \in SessionIds |-> 0]
    /\ found = sessions

Init == InitWith({1}) /\ SessionsIdle

\* ----------------------------------------------------------------- actions

\* an entry that does not look at the credential
MissingKeyIgnored == FALSE

\* if (!apiKey)
MissingKey == ~apiKey

\* generateImage is entered: the credential check and the locals
Start(p) ==
    /\ pc[p] = "start"
    /\ IF MissingKey
       THEN /\ pc' = [pc EXCEPT ![p] = "done"]
            /\ result' = [result EXCEPT ![p] = Thrown]
       ELSE /\ pc' = [pc EXCEPT ![p] = "attempt"]
            /\ UNCHANGED result
    /\ UNCHANGED <<sessionVars, config, locals, posted, answered, stores, sink>>

\* a do-body that posts the call twice before it awaits
AttemptTwice(p) ==
    /\ pc[p] = "attempt"
    /\ tries' = [tries EXCEPT ![p] = @ + request[p].count]
    /\ posted' = [posted EXCEPT ![p] =
          Append(Append(@, request[p].count - validImageCount[p]),
                 request[p].count - validImageCount[p])]
    /\ pc' = [pc EXCEPT ![p] = "post"]
    /\ UNCHANGED <<sessionVars, config, urls, validImageCount, imageResponse, artifacts,
                   idx, url, createdImage, result, answered, stores, sink>>

\* top of the do-body: the try counter, then the call of
\* postToStableDiffusion, which issues axios.post and awaits it
Attempt(p) ==
    /\ pc[p] = "attempt"
    /\ tries' = [tries EXCEPT ![p] =
                    NextTries(@, request[p].count, validImageCount[p])]
    /\ IF Depth > MaxDepth
       THEN /\ imageResponse' = [imageResponse EXCEPT ![p] = NoResponse]
            /\ pc' = [pc EXCEPT ![p] = "response"]
            /\ UNCHANGED posted
       ELSE /\ posted' = [posted EXCEPT ![p] =
                    Append(@, Samples(request[p].count, validImageCount[p]))]
            /\ pc' = [pc EXCEPT ![p] = "post"]
            /\ UNCHANGED imageResponse
    /\ UNCHANGED <<sessionVars, config, urls, validImageCount, artifacts, idx, url,
                   createdImage, result, answered, stores,
                   sink>>

\* axios.post resolves: postToStableDiffusion returns the artifacts
PostOk(p) ==
    /\ pc[p] = "post"
    /\ \E batch \in Batches(client[p], posted[p][Len(posted[p])]) :
          imageResponse' = [imageResponse EXCEPT ![p] =
              [defined |-> TRUE, artifacts |-> batch,
               updatedPrompt |-> UpdatedPrompt(Depth, Prompt)]]
    /\ answered' = [answered EXCEPT ![p] = @ + 1]
    /\ pc' = [pc EXCEPT ![p] = "response"]
    /\ UNCHANGED <<sessionVars, config, urls, validImageCount, tries, artifacts, idx, url,
                   createdImage, result, posted, stores, sink>>

\* axios.post rejects: the catch block notifies the user, returns undefined
PostFail(p) ==
    /\ pc[p] = "post"
    /\ MayFail(client[p])
    /\ sink' = sendWebsocketMessage(sink, request[p].userId, "ImageError",
                                    [message |-> ImageErrorMessage])
    /\ imageResponse' = [imageResponse EXCEPT ![p] = NoResponse]
    /\ answered' = [answered EXCEPT ![p] = @ + 1]
    /\ pc' = [pc EXCEPT ![p] = "response"]
    /\ UNCHANGED <<sessionVars, config, urls, validImageCount, tries, artifacts, idx, url,
                   createdImage, result, posted, stores>>

\* an orchestrator that goes on after a failed call
AbortsNever(resp) == FALSE

\* if (!imageResponse)
Aborts(resp) == ~resp.defined

\* an abort that hands back what was collected so far
AbortResultUrls(us) == Returned(us)

\* a catch block that throws again
AbortResultThrows(us) == Thrown

\* return undefined
AbortResult(us) == Undefined

\* back in generateImage with the client's answer
Response(p) ==
    /\ pc[p] = "response"
    /\ IF Aborts(imageResponse[p])
       THEN /\ result' = [result EXCEPT ![p] = AbortResult(urls[p])]
            /\ pc' = [pc EXCEPT ![p] = "done"]
            /\ UNCHANGED <<artifacts, idx, sink>>
       ELSE /\ sink' = IF imageResponse[p].updatedPrompt # NoPrompt
                       THEN sendWebsocketMessage(sink, request[p].userId,
                                "ImagePromptRephrased",
                                [message |-> imageResponse[p].updatedPrompt])
                       ELSE sink
            /\ artifacts' = [artifacts EXCEPT ![p] =
                                SuccessArtifacts(imageResponse[p])]
            /\ idx' = [idx EXCEPT ![p] = 1]
            /\ pc' = [pc EXCEPT ![p] = "for"]
            /\ UNCHANGED result
    /\ UNCHANGED <<sessionVars, config, urls, validImageCount, tries, imageResponse, url,
                   createdImage, posted, answered, stores>>

\* head of for (const image of artifacts), with the break; leaving the
\* do-body ends the scope of its block locals
ForNext(p) ==
    /\ pc[p] = "for"
    /\ IF idx[p] > Len(artifacts[p])
          \/ BatchDone(validImageCount[p], request[p].count)
       THEN /\ pc' = [pc EXCEPT ![p] = "while"]
            /\ imageResponse' = [imageResponse EXCEPT ![p] = NoResponse]
            /\ artifacts' = [artifacts EXCEPT ![p] = <<>>]
            /\ idx' = [idx EXCEPT ![p] = 0]
            /\ url' = [url EXCEPT ![p] = NoUrl]
            /\ createdImage' = [createdImage EXCEPT ![p] = NoImage]
       ELSE /\ pc' = [pc EXCEPT ![p] = "store"]
            /\ UNCHANGED <<imageResponse, artifacts, idx, url, createdImage>>
    /\ UNCHANGED <<sessionVars, config, urls, validImageCount, tries, result, posted, answered,
                   stores, sink>>

\* imageId = uuidv4(); url = uploadImage / saveImageLocally; urls.push(url)
Store(p) ==
    /\ pc[p] = "store"
    /\ LET imageId == nextUuid + 1
           image == artifacts[p][idx[p]]
       IN /\ nextUuid' = imageId
          /\ blobs' = blobs \cup {BlobOf(imageId, image.base64)}
          /\ url' = [url EXCEPT ![p] = UrlOf(imageId)]
          /\ urls' = [urls EXCEPT ![p] = Append(@, UrlOf(imageId))]
    /\ pc' = [pc EXCEPT ![p] = "create"]
    /\ UNCHANGED <<sessionVars, config, validImageCount, tries, imageResponse, artifacts,
                   idx, createdImage, result, posted, answered, images, sink>>

\* createdImage = await prisma.image.create({data: {userId, uri: url, ...}})
Create(p) ==
    /\ pc[p] = "create"
    /\ LET row == [id |-> Len(images) + 1, userId |-> request[p].userId,
                   uri |-> url[p]]
       IN /\ images' = Append(images, row)
          /\ createdImage' = [createdImage EXCEPT ![p] = row]
    /\ pc' = [pc EXCEPT ![p] = "notify"]
    /\ UNCHANGED <<sessionVars, config, urls, validImageCount, tries, imageResponse,
                   artifacts, idx, url, result, posted, answered, nextUuid, blobs, sink>>

\* a payload put together from the request, not read back from the table
CreatedPayloadUnsaved(row, userId, uri) == [id |-> 0, userId |-> userId, uri |-> uri]

\* the third argument at line 503: createdImage
CreatedPayload(row, userId, uri) == row

\* await sendWebsocketMessage(userId, ImageCreated, createdImage)
NotifyCreated(p) ==
    /\ pc[p] = "notify"
    /\ sink' = sendWebsocketMessage(sink, request[p].userId, "ImageCreated",
                   CreatedPayload(createdImage[p], request[p].userId, url[p]))
    /\ pc' = [pc EXCEPT ![p] = "count"]
    /\ UNCHANGED <<sessionVars, config, locals, result, posted, answered, stores>>

\* a counter kept at module level, shared by all invocations
CountShared(p) ==
    /\ pc[p] = "count"
    /\ validImageCount' = [q \in Invocations |-> validImageCount[q] + 1]
    /\ idx' = [idx EXCEPT ![p] = @ + 1]
    /\ pc' = [pc EXCEPT ![p] = "for"]
    /\ UNCHANGED <<sessionVars, config, urls, tries, imageResponse, artifacts, url,
                   createdImage, result, posted, answered, stores, sink>>

\* validImageCount++, and the iterator moves on
Count(p) ==
    /\ pc[p] = "count"
    /\ validImageCount' = [validImageCount EXCEPT ![p] = @ + 1]
    /\ idx' = [idx EXCEPT ![p] = @ + 1]
    /\ pc' = [pc EXCEPT ![p] = "for"]
    /\ UNCHANGED <<sessionVars, config, urls, tries, imageResponse, artifacts, url,
                   createdImage, result, posted, answered, stores, sink>>

\* } while (validImageCount < request.count && tries < maxImageTries)
While(p) ==
    /\ pc[p] = "while"
    /\ pc' = [pc EXCEPT ![p] =
                IF LoopAgain(validImageCount[p], request[p].count, tries[p])
                THEN "attempt" ELSE "final"]
    /\ UNCHANGED <<sessionVars, config, locals, result, posted, answered, stores, sink>>

\* after the loop: ImageFiltered or ImageGenerationDone
Final(p) ==
    /\ pc[p] = "final"
    /\ LET event == FinalEvent(validImageCount[p], request[p].count)
       IN sink' = sendWebsocketMessage(sink, request[p].userId, event,
                     [message |-> IF event = "ImageFiltered"
                                  THEN ImageFilteredMessage ELSE ""])
    /\ pc' = [pc EXCEPT ![p] = "return"]
    /\ UNCHANGED <<sessionVars, config, locals, result, posted, answered, stores>>

\* return urls
Return(p) ==
    /\ pc[p] = "return"
    /\ result' = [result EXCEPT ![p] = Returned(urls[p])]
    /\ pc' = [pc EXCEPT ![p] = "done"]
    /\ UNCHANGED <<sessionVars, config, locals, posted, answered, stores, sink>>

Next ==
    \E p \in Invocations :
        \/ Start(p)
        \/ Attempt(p)
        \/ PostOk(p)
        \/ PostFail(p)
        \/ Response(p)
        \/ ForNext(p)
        \/ Store(p)
        \/ Create(p)
        \/ NotifyCreated(p)
        \/ Count(p)
        \/ While(p)
        \/ Final(p)
        \/ Return(p)

Spec == Init /\ [][Next]_vars

\* Invocations side by side, or one alone, each against a service whose
\* answers settle the outcome of the request; images go to the bucket
InitConcurrent ==
    /\ \E called \in (SUBSET Invocations) \ {{}} : InitWith(called)
    /\ ~isLocalDevelopment
    /\ SessionsIdle
    /\ \A p \in Invocations :
          /\ client[p] = "any" => pc[p] = "idle"
          /\ request[p].count <= MaxConcurrent

SpecConcurrent == InitConcurrent /\ [][Next]_vars

\* ------------------------------------------------- the session handlers
\* the table as the requests find it; no image is being generated
InitSessions ==
    /\ InitWith({})
    /\ apiKey /\ ~isLocalDevelopment
    /\ sessions \in [SessionIds -> SessionRows]
    /\ call \in [Requests -> SessionCalls]
    /\ cpc = [r \in Requests |-> "getSession"]
    /\ session = [r \in Requests |-> NoSession]
    /\ answer = [r \in Requests |-> "pending"]
    /\ removedBy = [id \in SessionIds |-> 0]
    /\ found = sessions

\* getSession: findUnique, then the two checks; what it throws, or "ok"
GetSessionCheck(row, userId) ==
    IF ~row.exists THEN "NOT_FOUND"
    ELSE IF row.userId # NoUser /\ row.userId # userId THEN "FORBIDDEN"
    ELSE "ok"

\* await this.getSession(userId, trackingInfo, sessionId), as the first
\* statement of deleteSession and of patchSession
GetSession(r) ==
    /\ cpc[r] = "getSession"
    /\ LET row == sessions[call[r].sessionId]
           check == GetSessionCheck(row, call[r].userId)
       IN IF check = "ok"
          THEN /\ session' = [session EXCEPT ![r] = row]
               /\ cpc' = [cpc EXCEPT ![r] = "write"]
               /\ UNCHANGED answer
          ELSE /\ answer' = [answer EXCEPT ![r] = check]
               /\ cpc' = [cpc EXCEPT ![r] = "done"]
               /\ UNCHANGED session
    /\ UNCHANGED <<imageVars, sessions, call, removedBy, found>>

\* a deleteSession that removes the row at once
ArchivesNever(row) == FALSE

\* if (!session.archived)
ArchivesFirst(row) == ~row.archived

\* deleteSession after getSession: prisma.session.update({archived: true})
\* or prisma.session.delete; either one throws when the row is gone
DeleteSession(r) ==
    /\ cpc[r] = "write"
    /\ call[r].op = "deleteSession"
    /\ LET id == call[r].sessionId
       IN IF ~sessions[id].exists
          THEN /\ answer' = [answer EXCEPT ![r] = "RecordNotFound"]
               /\ UNCHANGED <<sessions, removedBy>>
          ELSE /\ answer' = [answer EXCEPT ![r] = "true"]
               /\ IF ArchivesFirst(session[r])
                  THEN /\ sessions' = [sessions EXCEPT ![id].archived = TRUE]
                       /\ UNCHANGED removedBy
                  ELSE /\ sessions' = [sessions EXCEPT ![id] = NoSession]
                       /\ removedBy' = [removedBy EXCEPT ![id] = r]
    /\ cpc' = [cpc EXCEPT ![r] = "done"]
    /\ UNCHANGED <<imageVars, call, session, found>>

\* patchSession after getSession: prisma.session.update({userId, ...request})
PatchSession(r) ==
    /\ cpc[r] = "write"
    /\ call[r].op = "patchSession"
    /\ LET id == call[r].sessionId
       IN IF ~sessions[id].exists
          THEN /\ answer' = [answer EXCEPT ![r] = "RecordNotFound"]
               /\ UNCHANGED sessions
          ELSE /\ answer' = [answer EXCEPT ![r] = "session"]
               /\ sessions' = [sessions EXCEPT
                                 ![id].userId = call[r].userId,
                                 ![id].archived =
                                     IF call[r].sets THEN call[r].archived ELSE @]
    /\ cpc' = [cpc EXCEPT ![r] = "done"]
    /\ UNCHANGED <<imageVars, call, session, removedBy, found>>

NextSessions ==
    \E r \in Requests :
        \/ GetSession(r)
        \/ DeleteSession(r)
        \/ PatchSession(r)

SpecSessions == InitSessions /\ [][NextSessions]_vars

\* The blob store fails: s3.send rejects in uploadImage, or writeFileSync
\* throws in saveImageLocally.  generateImage has no try around the write,
\* so its promise rejects with that error; the identifier is used up.
StoreFail(p) ==
    /\ pc[p] = "store"
    /\ nextUuid' = nextUuid + 1
    /\ result' = [result EXCEPT ![p] = Rejected]
    /\ pc' = [pc EXCEPT ![p] = "done"]
    /\ UNCHANGED <<sessionVars, config, locals, posted, answered, blobs, images, sink>>

NextIO ==
    \/ Next
    \/ \E p \in Invocations : StoreFail(p)

\* generateImage with a blob store that may fail
SpecIO == Init /\ [][NextIO]_vars

\* ------------------------------------------------------------ observations
Called == {p \in Invocations : pc[p] # "idle"}
User(p) == request[p].userId

\* rows of prisma.image created for the request of p
ImagesOf(p) == {i \in 1..Len(images) : images[i].userId = User(p)}
NumImages(p) == Cardinality(ImagesOf(p))

\* messages of one kind sent to the user of p
EventsOf(p, event) == {i \in 1..Len(sink[User(p)]) : sink[User(p)][i].event = event}
NumEvents(p, event) == Cardinality(EventsOf(p, event))

\* loop iterations begun (each issues one axios.post, Depth <= MaxDepth)
Iterations(p) == Len(posted[p])

\* the catch block of postToStableDiffusion was taken for the request of p
Failed(p) == EventsOf(p, "ImageError") # {}

\* the message sent last to the user of p
LastMessage(p) == sink[User(p)][Len(sink[User(p)])]

\* objects written to the blob store for the request of p
BlobsOf(p) == {b \in blobs : \E i \in 1..Len(urls[p]) : urls[p][i].key = b.key}

RECURSIVE RowsOf(_, _)
RowsOf(rows, userId) ==
    IF rows = <<>> THEN <<>>
    ELSE IF Head(rows).userId = userId
         THEN <<Head(rows)>> \o RowsOf(Tail(rows), userId)
         ELSE RowsOf(Tail(rows), userId)

\* rows of prisma.image of the request of p, in the order of their creation
ImageRows(p) == RowsOf(images, User(p))

RECURSIVE PayloadsOf(_, _)
PayloadsOf(msgs, event) ==
    IF msgs = <<>> THEN <<>>
    ELSE IF Head(msgs).event = event
         THEN <<Head(msgs).payload>> \o PayloadsOf(Tail(msgs), event)
         ELSE PayloadsOf(Tail(msgs), event)

\* payloads of the ImageCreated messages sent to the user of p, in order
CreatedEvents(p) == PayloadsOf(sink[User(p)], "ImageCreated")

\* axios.post calls of p that are awaited and have not settled yet
Outstanding(p) == Len(posted[p]) - answered[p]

\* everything accepted so far is stored, recorded, announced and counted
Settled(p) ==
    /\ Len(urls[p]) = validImageCount[p]
    /\ Cardinality(BlobsOf(p)) = validImageCount[p]
    /\ Len(ImageRows(p)) = validImageCount[p]
    /\ Len(CreatedEvents(p)) = validImageCount[p]

\* ------------------------------------------------------------------- C1
\* C1: the number of Artifact rows created for one request never exceeds
\* request.count, also when a batch holds more SUCCESS artifacts than asked.
C1_ArtifactsAtMostCount ==
    \A p \in Called : NumImages(p) <= request[p].count

\* a batch with SUCCESS artifacts left over once the count is reached
C1_Witness ==
    \E p \in Called :
        /\ pc[p] = "for"
        /\ request[p].count >= 1
        /\ NumImages(p) = request[p].count
        /\ idx[p] <= Len(artifacts[p])

\* ------------------------------------------------------------------- C2
\* C2: for request.count >= 1 the counter `tries` never exceeds the try
\* budget maxImageTries.
C2_TriesWithinBudget ==
    \A p \in Called : request[p].count >= 1 => tries[p] <= maxImageTries

\* ------------------------------------------------------------------- C3
\* C3 as stated: with the credential configured, count = N and a client
\* whose every returned artifact is SUCCESS, the invocation ends with
\* exactly N rows recorded and a list of exactly N URIs.
C3_AllSuccessGivesN ==
    \A p \in Called :
        (apiKey /\ client[p] \in {"success", "full"} /\ pc[p] = "done") =>
            /\ result[p].kind = "list"
            /\ Len(result[p].urls) = request[p].count
            /\ NumImages(p) = request[p].count

\* C3 amended: the same when the client also returns, on every call, at
\* least as many artifacts as were asked for.
C3_FullSuccessGivesN ==
    \A p \in Called :
        (apiKey /\ client[p] = "full" /\ pc[p] = "done") =>
            /\ result[p].kind = "list"
            /\ Len(result[p].urls) = request[p].count
            /\ NumImages(p) = request[p].count

C3_Witness ==
    \E p \in Called :
        /\ client[p] = "full" /\ pc[p] = "done"
        /\ request[p].count >= 2
        /\ result[p].kind = "list"
        /\ Len(result[p].urls) = request[p].count
        /\ NumImages(p) = request[p].count

\* ------------------------------------------------------------------- C4
\* C4: when every attempt returns only CONTENT_FILTERED artifacts and
\* count = N >= 1, the loop runs at most 30/N iterations, and the
\* invocation then returns fewer than N URIs, has recorded nothing and has
\* emitted ImageFiltered.
C4_FilteredStopsWithinBudget ==
    \A p \in Called :
        (apiKey /\ client[p] = "filtered" /\ request[p].count >= 1) =>
            /\ Iterations(p) * request[p].count <= maxImageTries
            /\ NumImages(p) = 0
            /\ pc[p] = "done" =>
                  /\ result[p].kind = "list"
                  /\ Len(result[p].urls) < request[p].count
                  /\ NumEvents(p, "ImageFiltered") = 1

\* ------------------------------------------------------------------- C5
\* C5 as stated: a client failure on the first attempt leaves zero
\* artifacts and makes generateImage return undefined, not a list; an empty
\* or short list is returned only with the try budget used up.
C5_EmptyOrShortOnlyWhenExhausted ==
    \A p \in Called :
        /\ (Failed(p) /\ Iterations(p) = 1) =>
              /\ NumImages(p) = 0
              /\ BlobsOf(p) = {}
              /\ pc[p] \in {"response", "done"}
              /\ pc[p] = "done" => result[p] = Undefined
        /\ (/\ result[p].kind = "list"
            /\ \/ result[p].urls = <<>>
               \/ Len(result[p].urls) < request[p].count) =>
              /\ tries[p] >= maxImageTries
              /\ ~Failed(p)

\* C5 amended: the same, for the lists shorter than request.count (the
\* empty list of a request with count = 0 is complete, not short).
C5_FirstFailureReturnsUndefined ==
    \A p \in Called :
        /\ (Failed(p) /\ Iterations(p) = 1) =>
              /\ NumImages(p) = 0
              /\ BlobsOf(p) = {}
              /\ pc[p] \in {"response", "done"}
              /\ pc[p] = "done" => result[p] = Undefined
        /\ (result[p].kind = "list" /\ Len(result[p].urls) < request[p].count) =>
              /\ tries[p] >= maxImageTries
              /\ ~Failed(p)

C5_Witness ==
    \E p \in Called :
        /\ Failed(p) /\ Iterations(p) = 1
        /\ pc[p] = "done"
        /\ result[p] = Undefined

\* ------------------------------------------------------------------- C6
\* C6: once the client has failed on an attempt, ImageError has been sent
\* to the requesting user exactly once and is the last message sent, the
\* invocation is returning undefined, and from then on no further call is
\* posted and no message (ImageFiltered, ImageGenerationDone) is sent.
C6_FailureIsFatal ==
    /\ [](\A p \in Called :
            Failed(p) =>
              /\ NumEvents(p, "ImageError") = 1
              /\ LastMessage(p).event = "ImageError"
              /\ pc[p] \in {"response", "done"}
              /\ pc[p] = "done" => result[p] = Undefined)
    /\ [][\A p \in Called :
            Failed(p) => /\ posted'[p] = posted[p]
                         /\ sink'[User(p)] = sink[User(p)]]_vars

\* a failure on a later attempt, after an image was accepted
C6_Witness ==
    \E p \in Called :
        /\ Failed(p)
        /\ Iterations(p) >= 2
        /\ validImageCount[p] >= 1
        /\ pc[p] = "done"

\* ------------------------------------------------------------------- C7
\* C7: the try counter is the number of loop iterations begun times
\* request.count; it does not follow the shrinking remainder that is sent
\* to the client.
C7_TriesGrowByCount ==
    \A p \in Called : tries[p] = Iterations(p) * request[p].count

\* count = 3, one image accepted in batch 1, 2 asked for in batch 2:
\* tries = 6 after two iterations, not 5
C7_Witness ==
    \E p \in Called :
        /\ request[p].count = 3
        /\ posted[p] = <<3, 2>>
        /\ pc[p] = "while"
        /\ tries[p] = 6

\* ------------------------------------------------------------------- C8
\* C8: when generateImage has returned a list, the last message sent is
\* the only ImageFiltered or ImageGenerationDone message: it is
\* ImageGenerationDone iff validImageCount = request.count, and
\* ImageFiltered iff validImageCount < request.count.
C8_OneFinalNotification ==
    \A p \in Called :
        result[p].kind = "list" =>
            /\ NumEvents(p, "ImageFiltered") + NumEvents(p, "ImageGenerationDone") = 1
            /\ LastMessage(p).event \in {"ImageFiltered", "ImageGenerationDone"}
            /\ LastMessage(p).event = "ImageGenerationDone"
                  <=> validImageCount[p] = request[p].count
            /\ LastMessage(p).event = "ImageFiltered"
                  <=> validImageCount[p] < request[p].count

\* count = 2, one image accepted from batch 1, one more from batch 2:
\* 2 URIs, 2 rows, ImageGenerationDone and no ImageFiltered
C8_Witness ==
    \E p \in Called :
        /\ request[p].count = 2
        /\ posted[p] = <<2, 1>>
        /\ result[p].kind = "list"
        /\ Len(result[p].urls) = 2
        /\ NumImages(p) = 2
        /\ NumEvents(p, "ImageGenerationDone") = 1
        /\ NumEvents(p, "ImageFiltered") = 0

\* ------------------------------------------------------------------- C9
\* C9: per accepted artifact there is one blob write, then one row, then
\* one ImageCreated message, then one increment of validImageCount, in
\* this order; the row exists before the message is sent, and the payload
\* of the k-th message is the k-th row, whose uri is the k-th URI.
C9_StoreRecordNotifyCount ==
    \A p \in Called :
        LET v == validImageCount[p]
            stored == Cardinality(BlobsOf(p))
            rows == ImageRows(p)
            sent == CreatedEvents(p)
        IN /\ Len(urls[p]) = stored
           /\ stored = IF pc[p] \in {"create", "notify", "count"} THEN v + 1 ELSE v
           /\ Len(rows) = IF pc[p] \in {"notify", "count"} THEN v + 1 ELSE v
           /\ Len(sent) = IF pc[p] = "count" THEN v + 1 ELSE v
           /\ \A k \in 1..Len(sent) :
                 /\ k <= Len(rows)
                 /\ sent[k] = rows[k]
                 /\ sent[k].id >= 1
                 /\ sent[k].uri = urls[p][k]

\* two artifacts accepted, the second one notified and about to be counted
C9_Witness ==
    \E p \in Called :
        /\ pc[p] = "count"
        /\ validImageCount[p] = 1
        /\ Len(CreatedEvents(p)) = 2

\* ------------------------------------------------------------------ C10
\* C10: without a credential generateImage raises at once: no call is
\* posted, no blob written, no row created, no message sent, no try made.
C10_MissingKeyIsFatal ==
    ~apiKey =>
        \A p \in Called :
            /\ pc[p] \in {"start", "done"}
            /\ pc[p] = "done" => result[p] = Thrown
            /\ posted[p] = <<>>
            /\ tries[p] = 0
            /\ blobs = {}
            /\ images = <<>>
            /\ sink[User(p)] = <<>>

C10_Witness ==
    \E p \in Called :
        /\ ~apiKey
        /\ request[p].count >= 1
        /\ pc[p] = "done"
        /\ result[p] = Thrown

\* ------------------------------------------------------------------ C11
Raised(p) == result[p].kind \in {"Error", "rejected"}

\* C11 as stated: a client failure ends in undefined, every other end of
\* the loop in a list, and generateImage raises only without a credential.
C11_OnlyMissingKeyRaises ==
    \A p \in Called :
        pc[p] = "done" =>
            /\ Failed(p) => result[p] = Undefined
            /\ result[p].kind \in {"undefined", "list", "Error", "rejected"}
            /\ Raised(p) => ~apiKey

\* C11 amended: a client failure ends in undefined and an exhausted budget
\* or a partial fulfilment in a list; generateImage raises without a
\* credential, and otherwise only with the error of a blob store write,
\* which it does not catch.
C11_ServiceFailuresAreReturned ==
    \A p \in Called :
        pc[p] = "done" =>
            /\ Failed(p) => result[p] = Undefined
            /\ result[p].kind \in {"undefined", "list", "Error", "rejected"}
            /\ result[p] = Thrown <=> ~apiKey
            /\ result[p].kind = "undefined" <=> Failed(p)
            /\ result[p].kind = "rejected" =>
                  /\ apiKey /\ ~Failed(p)
                  /\ validImageCount[p] < request[p].count
            /\ (apiKey /\ ~Failed(p) /\ result[p].kind # "rejected") =>
                  result[p].kind = "list"

\* the budget used up with one of four images: a list, no exception
C11_Witness ==
    \E p \in Called :
        /\ pc[p] = "done"
        /\ request[p].count = 4
        /\ tries[p] >= maxImageTries
        /\ validImageCount[p] = 1
        /\ result[p].kind = "list"

\* ------------------------------------------------------------------ C12
\* C12 as stated: a request with count = 0 (credential configured) adds no
\* artifact and ends with the empty list and ImageGenerationDone, without
\* ImageFiltered.
C12_ZeroCountIsEmptySuccess ==
    \A p \in Called :
        (apiKey /\ request[p].count = 0) =>
            /\ NumImages(p) = 0
            /\ BlobsOf(p) = {}
            /\ CreatedEvents(p) = <<>>
            /\ pc[p] = "done" =>
                  /\ result[p] = Returned(<<>>)
                  /\ NumEvents(p, "ImageGenerationDone") = 1
                  /\ NumEvents(p, "ImageFiltered") = 0

\* C12 amended: a request with count = 0 adds no artifact and makes no
\* try, but the do-body runs once and posts one call for 0 images; if that
\* call is answered the invocation ends with the empty list and
\* ImageGenerationDone as its only message, and if it fails it ends with
\* ImageError and undefined.
C12_ZeroCountPostsOnce ==
    \A p \in Called :
        (apiKey /\ request[p].count = 0) =>
            /\ NumImages(p) = 0
            /\ BlobsOf(p) = {}
            /\ CreatedEvents(p) = <<>>
            /\ tries[p] = 0
            /\ posted[p] \in {<<>>, <<0>>}
            /\ pc[p] = "done" =>
                  /\ posted[p] = <<0>>
                  /\ IF Failed(p)
                     THEN /\ result[p] = Undefined
                          /\ sink[User(p)] =
                               <<Message("ImageError", [message |-> ImageErrorMessage])>>
                     ELSE /\ result[p] = Returned(<<>>)
                          /\ sink[User(p)] =
                               <<Message("ImageGenerationDone", [message |-> ""])>>

\* count = 0 and a batch that holds SUCCESS artifacts all the same
C12_Witness ==
    \E p \in Called :
        /\ request[p].count = 0
        /\ pc[p] = "for"
        /\ Len(artifacts[p]) >= 1

\* ------------------------------------------------------------------ C13
\* C13: an invocation has at most one generation call outstanding; while
\* one is outstanding nothing of the invocation is half-processed, and a
\* call is posted only when the one before it has settled and every
\* artifact accepted so far is stored, recorded, announced and counted.
C13_AttemptsDoNotOverlap ==
    /\ [](\A p \in Called :
            /\ Outstanding(p) \in {0, 1}
            /\ Outstanding(p) = 1 <=> pc[p] = "post"
            /\ Outstanding(p) = 1 => Settled(p))
    /\ [][\A p \in Called :
            posted'[p] # posted[p] =>
               /\ Outstanding(p) = 0
               /\ Settled(p)
               /\ Outstanding(p)' = 1]_vars

\* the second call is out, the image accepted from the first is settled
C13_Witness ==
    \E p \in Called :
        /\ pc[p] = "post"
        /\ Len(posted[p]) = 2
        /\ answered[p] = 1
        /\ validImageCount[p] = 1
        /\ Len(CreatedEvents(p)) = 1

\* ------------------------------------------------------------------ C14
\* what invocation p keeps for itself, and what it leaves for its user
Own(p) == <<pc[p], urls[p], validImageCount[p], tries[p], imageResponse[p],
            artifacts[p], idx[p], url[p], createdImage[p], result[p],
            posted[p], answered[p], Len(ImageRows(p)), sink[User(p)]>>

RECURSIVE EventsIn(_)
EventsIn(msgs) ==
    IF msgs = <<>> THEN <<>> ELSE <<Head(msgs).event>> \o EventsIn(Tail(msgs))

\* the outcome of a request for `count` images that runs alone against a
\* service of the given kind: the result, the rows, the messages
AloneKind(count, kind) ==
    IF ~apiKey THEN "Error" ELSE IF kind = "failing" THEN "undefined" ELSE "list"
AloneRows(count, kind) ==
    IF apiKey /\ kind \in {"success", "full"} THEN count ELSE 0
AloneEvents(count, kind) ==
    CASE ~apiKey -> <<>>
      [] kind = "failing" -> <<"ImageError">>
      [] kind = "filtered" /\ count >= 1 -> <<"ImageFiltered">>
      [] OTHER -> [i \in 1..(AloneRows(count, kind) + 1) |->
                     IF i <= AloneRows(count, kind)
                     THEN "ImageCreated" ELSE "ImageGenerationDone"]

\* C14: in every interleaving of the invocations, a step of one
\* invocation leaves the locals, the rows and the messages of the others as
\* they are, and every invocation ends with the result, the number of rows
\* and the messages it has when it runs alone against the same service.
C14_InvocationsAreIndependent ==
    /\ [][\A p \in Called : pc'[p] = pc[p] => Own(p)' = Own(p)]_vars
    /\ [](\A p \in Called :
            pc[p] = "done" =>
               /\ result[p].kind = AloneKind(request[p].count, client[p])
               /\ Len(result[p].urls) =
                    IF result[p].kind = "list"
                    THEN AloneRows(request[p].count, client[p]) ELSE 0
               /\ Len(ImageRows(p)) = AloneRows(request[p].count, client[p])
               /\ EventsIn(sink[User(p)]) =
                    AloneEvents(request[p].count, client[p]))

\* two invocations that took turns at the image table, both finished
C14_Witness ==
    /\ \A p \in Invocations : pc[p] = "done" /\ result[p].kind = "list"
    /\ Len(images) = 4
    /\ images[1].userId # images[2].userId
    /\ images[2].userId # images[3].userId
    /\ images[3].userId # images[4].userId

\* ------------------------------------------------------------------ C15
\* C15: the artifact being stored, recorded, announced or counted has
\* finish reason SUCCESS and is an artifact of the current response, every
\* artifact kept by the filter is one, and none is processed once
\* validImageCount has reached request.count.
C15_OnlySuccessAccepted ==
    \A p \in Called :
        /\ \A i \in 1..Len(artifacts[p]) :
              /\ artifacts[p][i].finishReason = "SUCCESS"
              /\ artifacts[p][i].base64 \in 1..Len(imageResponse[p].artifacts)
              /\ imageResponse[p].artifacts[artifacts[p][i].base64] = artifacts[p][i]
        /\ pc[p] \in {"store", "create", "notify", "count"} =>
              /\ idx[p] \in 1..Len(artifacts[p])
              /\ artifacts[p][idx[p]].finishReason = "SUCCESS"
              /\ validImageCount[p] < request[p].count
        /\ pc[p] \in {"create", "notify", "count"} =>
              \E b \in BlobsOf(p) :
                  /\ b.key = url[p].key
                  /\ b.body = artifacts[p][idx[p]].base64

\* a batch of a rejected and an accepted artifact, the accepted one stored
C15_Witness ==
    \E p \in Called :
        /\ pc[p] = "create"
        /\ Len(imageResponse[p].artifacts) = 2
        /\ imageResponse[p].artifacts[1].finishReason = "CONTENT_FILTERED"
        /\ artifacts[p][idx[p]].base64 = 2

\* ------------------------------------------------------------------ C16
\* C16: every call posted to the client asks for request.count -
\* validImageCount images, taken when the call is made, and that number is
\* never negative.
C16_SamplesAreTheRemainder ==
    /\ [](\A p \in Called :
            /\ \A i \in 1..Len(posted[p]) : posted[p][i] \in 0..request[p].count
            /\ pc[p] = "post" =>
                  posted[p][Len(posted[p])] = request[p].count - validImageCount[p])
    /\ [][\A p \in Called :
            posted'[p] # posted[p] =>
               posted'[p] = Append(posted[p], request[p].count - validImageCount[p])]_vars

\* the third call of a request for 4 images asks for the 1 still missing
C16_Witness ==
    \E p \in Called :
        /\ request[p].count = 4
        /\ pc[p] = "post"
        /\ posted[p] = <<4, 3, 1>>

\* ------------------------------------------------------------------ C17
\* C17: a returned list holds the uri of every row recorded for the
\* request, one per row and in the order of acceptance; its length is
\* validImageCount, at most request.count, and smaller than request.count
\* only with the try budget used up (a result, not an error).
C17_ListIsTheRecordedUris ==
    \A p \in Called :
        result[p].kind = "list" =>
            /\ Len(result[p].urls) = Len(ImageRows(p))
            /\ \A k \in 1..Len(result[p].urls) :
                  result[p].urls[k] = ImageRows(p)[k].uri
            /\ Len(result[p].urls) = validImageCount[p]
            /\ Len(result[p].urls) <= request[p].count
            /\ Len(result[p].urls) < request[p].count => tries[p] >= maxImageTries

\* a partial list: two of four images, the budget used up
C17_Witness ==
    \E p \in Called :
        /\ request[p].count = 4
        /\ result[p].kind = "list"
        /\ Len(result[p].urls) = 2
        /\ tries[p] >= maxImageTries

\* ------------------------------------------------------------------ C18
\* C18: when the client fails after images were accepted, generateImage
\* returns undefined without their URIs, and nothing is rolled back: the
\* blobs, the rows and the ImageCreated messages of the earlier attempts
\* stay, and no step ever removes a blob, a row or a message.
C18_NoRollbackOnAbort ==
    /\ [](\A p \in Called :
            (Failed(p) /\ pc[p] = "done") =>
               /\ result[p] = Undefined
               /\ result[p].urls = <<>>
               /\ Cardinality(BlobsOf(p)) = validImageCount[p]
               /\ Len(ImageRows(p)) = validImageCount[p]
               /\ Len(CreatedEvents(p)) = validImageCount[p]
               /\ Len(urls[p]) = validImageCount[p])
    /\ [][/\ blobs \subseteq blobs'
          /\ SubSeq(images', 1, Len(images)) = images
          /\ \A u \in Invocations :
                SubSeq(sink'[u], 1, Len(sink[u])) = sink[u]]_vars

\* two images accepted in earlier attempts, then the failure
C18_Witness ==
    \E p \in Called :
        /\ Failed(p) /\ pc[p] = "done"
        /\ Iterations(p) = 3
        /\ Len(ImageRows(p)) = 2
        /\ result[p] = Undefined

\* ------------------------------------------------------------------ C19
Deletes == {r \in Requests : call[r].op = "deleteSession"}
Patches == {r \in Requests : call[r].op = "patchSession"}
RowOf(r) == sessions[call[r].sessionId]
\* request r takes its step from one suspension point to the next
Steps(r, from, to) == cpc[r] = from /\ cpc'[r] = to
\* deleteSession calls that returned true for row id
Deleted(id) ==
    {r \in Deletes : call[r].sessionId = id /\ cpc[r] = "done" /\ answer[r] = "true"}
\* patchSession calls that archived row id
Archived(id) ==
    {r \in Patches : /\ call[r].sessionId = id
                     /\ call[r].sets /\ call[r].archived
                     /\ cpc[r] = "done" /\ answer[r] = "session"}

====
